---- MODULE Spec2Model ----
(***************************************************************************)
(* A model of the wal-g Prometheus exporter (src/exporter.py): the WAL     *)
(* segment identifier functions, the Exporter object's state, the          *)
(* SIGHUP handler update_basebackup, the scrape callbacks and the          *)
(* continuity scan compute_complex_metrics.                                *)
(*                                                                         *)
(* A WAL segment identifier is a Python str: here the sequence of its      *)
(* character codes.  A Python int is unbounded, and the identifier         *)
(* fields reach 0xFFFFFFFF: a Python int n is the record [q, r] with       *)
(* n = q * Limb + r and 0 <= r < Limb, so that no component leaves the     *)
(* range of the model checker's integers.                                  *)
(***************************************************************************)
EXTENDS Integers, Sequences, FiniteSets, TLC

None == <<>>

(* The exc of a call that raised nothing. *)
NoExc == "none"

-----------------------------------------------------------------------------
(* Python int arithmetic, as far as the identifier functions use it.       *)

Limb == 16 * 16 * 16 * 16

Base == 256

Norm(q, r) == [q |-> q + (r \div Limb), r |-> r % Limb]

PyInt(n) == Norm(0, n)

Plus(x, y) == Norm(x.q + y.q, x.r + y.r)

Neg(x) == Norm(0 - x.q, 0 - x.r)

Times(x, k) == Norm(x.q * k, x.r * k)

FloorDiv(x, k) == PyInt(x.q * (Limb \div k) + (x.r \div k))

Mod(x, k) == PyInt(x.r % k)

Less(x, y) == x.q < y.q \/ (x.q = y.q /\ x.r < y.r)

-----------------------------------------------------------------------------
(* Python str: a sequence of character codes ("0" is 48, "9" 57, "A" 65,   *)
(* "F" 70, "-" 45).  Slicing, int(s, 16), '%08X' % n, and the order of     *)
(* < and > on str, which compares character codes from the left.           *)

Min2(a, b) == IF a < b THEN a ELSE b

Slice(s, i, j) == SubSeq(s, i + 1, Min2(j, Len(s)))

IsHexChar(c) == (48 <= c /\ c <= 57) \/ (65 <= c /\ c <= 70)

Digit(c) == IF c <= 57 THEN c - 48 ELSE c - 55

HexChar(d) == IF d < 10 THEN 48 + d ELSE 55 + d

RECURSIVE HexNat(_, _, _, _)
HexNat(s, i, j, acc) ==
    IF i > j THEN acc ELSE HexNat(s, i + 1, j, acc * 16 + Digit(s[i]))

(* Four digits from s[i] on. *)
Hex4(s, i) ==
    ((Digit(s[i]) * 16 + Digit(s[i + 1])) * 16 + Digit(s[i + 2])) * 16 + Digit(s[i + 3])

(* The digits from s[i] on: up to four are one limb, eight (the usual      *)
(* field) are two limbs of four, any other number is read digit by digit.  *)
IntHexAbs(s, i) ==
    IF Len(s) - i < 4 THEN Norm(0, HexNat(s, i, Len(s), 0))
    ELSE IF Len(s) - i = 7 THEN [q |-> Hex4(s, i), r |-> Hex4(s, i + 4)]
    ELSE Norm(HexNat(s, i, Len(s) - 4, 0), HexNat(s, Len(s) - 3, Len(s), 0))

IntHex(s) == IF s[1] = 45 THEN Neg(IntHexAbs(s, 2)) ELSE IntHexAbs(s, 1)

RECURSIVE HexStr(_, _)
HexStr(n, w) ==
    IF n = 0 /\ w <= 0 THEN <<>>
    ELSE Append(HexStr(n \div 16, w - 1), HexChar(n % 16))

HexDigits(x, w) ==
    IF x.q = 0 THEN HexStr(x.r, w)
    ELSE HexStr(x.q, w - 4) \o HexStr(x.r, 4)

Fmt08X(x) ==
    IF x.q < 0 THEN <<45>> \o HexDigits(Neg(x), 7)
    ELSE HexDigits(x, 8)

RECURSIVE StrLessFrom(_, _, _)
StrLessFrom(s, t, i) ==
    IF i > Len(t) THEN FALSE
    ELSE IF i > Len(s) THEN TRUE
    ELSE IF s[i] = t[i] THEN StrLessFrom(s, t, i + 1)
    ELSE s[i] < t[i]

StrLess(s, t) == StrLessFrom(s, t, 1)

StrMax(S) == CHOOSE x \in S : \A y \in S : ~StrLess(x, y)

StrMin(S) == CHOOSE x \in S : \A y \in S : ~StrLess(y, x)

-----------------------------------------------------------------------------
(* The identifier functions (src/exporter.py, lines 68 to 91).             *)

(* get_previous_wal without the borrow from segment_high. *)
get_previous_wal_no_borrow(wal) ==
    LET timeline == Slice(wal, 0, 8)
        segment_low1 == Plus(IntHex(Slice(wal, 16, 24)), PyInt(-1))
        segment_high == IntHex(Slice(wal, 8, 16))
        segment_low == Mod(segment_low1, Base)
    IN  timeline \o Fmt08X(segment_high) \o Fmt08X(segment_low)

get_previous_wal(wal) ==
    LET timeline == Slice(wal, 0, 8)
        segment_low1 == Plus(IntHex(Slice(wal, 16, 24)), PyInt(-1))
        segment_high == Plus(IntHex(Slice(wal, 8, 16)), FloorDiv(segment_low1, Base))
        segment_low == Mod(segment_low1, Base)
    IN  timeline \o Fmt08X(segment_high) \o Fmt08X(segment_low)

get_next_wal(wal) ==
    LET timeline == Slice(wal, 0, 8)
        segment_low1 == Plus(IntHex(Slice(wal, 16, 24)), PyInt(1))
        segment_high == Plus(IntHex(Slice(wal, 8, 16)), FloorDiv(segment_low1, Base))
        segment_low == Mod(segment_low1, Base)
    IN  timeline \o Fmt08X(segment_high) \o Fmt08X(segment_low)

WalInt(a) == Plus(Times(IntHex(Slice(a, 8, 16)), Base), IntHex(Slice(a, 16, 24)))

(* is_before with <= for <. *)
is_before_or_equal(a, b) ==
    LET timeline_a == Slice(a, 0, 8)
        timeline_b == Slice(b, 0, 8)
    IN  IF timeline_a # timeline_b THEN FALSE
        ELSE ~Less(WalInt(b), WalInt(a))

is_before(a, b) ==
    LET timeline_a == Slice(a, 0, 8)
        timeline_b == Slice(b, 0, 8)
    IN  IF timeline_a # timeline_b THEN FALSE
        ELSE Less(WalInt(a), WalInt(b))

-----------------------------------------------------------------------------
(* The status value: the function given to walg_exception.set_function.    *)
(* Python reads  2 if b else 0 + 3 if x else 0 + 5 if r else 0  as         *)
(* 2 if b else ((0 + 3) if x else ((0 + 5) if r else 0)).                  *)

exception_value(basebackup_exception, xlog_exception, remote_exception) ==
    IF basebackup_exception THEN 2
    ELSE IF xlog_exception THEN 0 + 3
    ELSE IF remote_exception THEN 0 + 5
    ELSE 0

-----------------------------------------------------------------------------
(* The Exporter object (lines 96 to 159).  A gauge is the value it holds;  *)
(* a gauge without labels holds 0 until it is set.  A base backup is       *)
(* [time, wal_file_name, start_lsn], time being bb['time'].timestamp().    *)
(* A method is an operator from the object to [self, exc, ret]: the object *)
(* as the call leaves it, the exception raised (NoExc: it returned) and    *)
(* the value returned.                                                     *)

NewExporter ==
    [basebackup_exception |-> FALSE,
     xlog_exception |-> FALSE,
     remote_exception |-> FALSE,
     bbs |-> <<>>,
     xlogs_done |-> {},
     last_archive_check |-> None,
     archive_status |-> None,
     basebackup_count |-> 0,
     basebackup |-> <<>>,
     oldest_valid_basebackup |-> 0,
     last_upload_basebackup |-> None,
     oldest_basebackup |-> 0,
     xlog_missing |-> 0,
     xlog_since_last_bb |-> 0,
     continious_wal |-> 0,
     valid_basebackup_count |-> 0,
     useless_remote_wal_segment |-> 0]

Returns(s, v) == [self |-> s, exc |-> NoExc, ret |-> v]

Raises(s, e) == [self |-> s, exc |-> e, ret |-> None]

(* A local variable: x is v in In(x), v computed once. *)
Let(v, In(_)) == CHOOSE res \in {In(x) : x \in {v}} : TRUE

-----------------------------------------------------------------------------
(* compute_complex_metrics (lines 349 to 425).  A walk that has not        *)
(* reached its end after WalkLimit steps, more than any two segments of    *)
(* the model are apart, never ends: its target is behind current_xlog or   *)
(* on another timeline, and get_next_wal only moves forward (past          *)
(* FFFFFFFF000000FF it leaves the 24 characters and comes back at          *)
(* 1000000000000001, above every segment of the model).  The call then     *)
(* never returns: Hangs.                                                   *)

ScanLen == 7

WalkLimit == ScanLen + 1

Hangs(s) == [self |-> s, exc |-> "hang", ret |-> None]

ScanStart ==
    [current_xlog |-> None,
     missing_wal |-> 0,
     continious_wal |-> 0,
     oldest_valid_basebackup |-> None,
     valid_basebackup_count |-> 0,
     hang |-> FALSE]

GapReset(st) ==
    [st EXCEPT !.missing_wal = @ + 1,
               !.continious_wal = 0,
               !.oldest_valid_basebackup = None,
               !.valid_basebackup_count = 0]

RECURSIVE WalkToBackup(_, _, _, _)
WalkToBackup(st, wal_file_name, xlogs_done, fuel) ==
    IF st.current_xlog = wal_file_name THEN st
    ELSE IF fuel = 0 THEN [st EXCEPT !.hang = TRUE]
    ELSE LET st1 == IF st.current_xlog \in xlogs_done
                    THEN [st EXCEPT !.continious_wal = @ + 1]
                    ELSE GapReset(st)
         IN  WalkToBackup([st1 EXCEPT !.current_xlog = get_next_wal(@)],
                          wal_file_name, xlogs_done, fuel - 1)

RECURSIVE ScanBackups(_, _, _, _)
ScanBackups(st, bbs, i, xlogs_done) ==
    IF i > Len(bbs) \/ st.hang THEN st
    ELSE LET bb == bbs[i]
             st1 == [st EXCEPT
                        !.oldest_valid_basebackup =
                            IF @ = None THEN <<bb.time>> ELSE @,
                        !.valid_basebackup_count = @ + 1]
         IN  IF st1.current_xlog = None
             THEN ScanBackups([st1 EXCEPT !.current_xlog = bb.wal_file_name],
                              bbs, i + 1, xlogs_done)
             ELSE ScanBackups(WalkToBackup(st1, bb.wal_file_name, xlogs_done,
                                           WalkLimit),
                              bbs, i + 1, xlogs_done)

(* The walk to the master position that counts no segment. *)
WalkToMaster_no_count(st, master_position, xlogs_done, fuel) ==
    IF ~is_before(st.current_xlog, master_position) THEN st
    ELSE [st EXCEPT !.current_xlog = master_position]

(* The walk to the master position that counts a missing segment without  *)
(* resetting the chain.                                                    *)
RECURSIVE WalkToMaster_no_reset(_, _, _, _)
WalkToMaster_no_reset(st, master_position, xlogs_done, fuel) ==
    IF ~is_before(st.current_xlog, master_position) THEN st
    ELSE IF fuel = 0 THEN [st EXCEPT !.hang = TRUE]
    ELSE LET st1 == IF st.current_xlog \in xlogs_done
                    THEN [st EXCEPT !.continious_wal = @ + 1]
                    ELSE [st EXCEPT !.missing_wal = @ + 1]
         IN  WalkToMaster_no_reset([st1 EXCEPT !.current_xlog = get_next_wal(@)],
                                   master_position, xlogs_done, fuel - 1)

RECURSIVE WalkToMaster(_, _, _, _)
WalkToMaster(st, master_position, xlogs_done, fuel) ==
    IF ~is_before(st.current_xlog, master_position) THEN st
    ELSE IF fuel = 0 THEN [st EXCEPT !.hang = TRUE]
    ELSE LET remote_xlog_after_current ==
                 {xlog \in xlogs_done : is_before(st.current_xlog, xlog)}
             st1 == IF st.current_xlog \in xlogs_done
                    THEN [st EXCEPT !.continious_wal = @ + 1]
                    ELSE IF remote_xlog_after_current # {}
                    THEN GapReset(st)
                    ELSE st
         IN  WalkToMaster([st1 EXCEPT !.current_xlog = get_next_wal(@)],
                          master_position, xlogs_done, fuel - 1)

(* The count of useless segments taken against the last backup. *)
UselessRemoteWal_last_backup(s) ==
    IF s.bbs # <<>>
    THEN LET first_wal_needed == s.bbs[Len(s.bbs)].wal_file_name
         IN  Cardinality({wal \in s.xlogs_done : is_before(wal, first_wal_needed)})
    ELSE 0

UselessRemoteWal(s) ==
    IF s.bbs # <<>>
    THEN LET first_wal_needed == s.bbs[1].wal_file_name
         IN  Cardinality({wal \in s.xlogs_done : is_before(wal, first_wal_needed)})
    ELSE 0

(* The count of segments since the last backup, its own segment counted. *)
XlogSinceLastBb_or_equal(s) ==
    IF s.bbs # <<>>
    THEN LET last_bb_position == s.bbs[Len(s.bbs)].wal_file_name
         IN  Cardinality({xlog \in s.xlogs_done : ~is_before(xlog, last_bb_position)})
    ELSE 0

XlogSinceLastBb(s) ==
    IF s.bbs # <<>>
    THEN LET last_bb_position == s.bbs[Len(s.bbs)].wal_file_name
         IN  Cardinality({xlog \in s.xlogs_done : is_before(last_bb_position, xlog)})
    ELSE 0

(* The values the scan computed, whether or not it published each of them. *)
Bundle(st, useless_remote_wal, xlog_since_last_bb) ==
    [missing_wal |-> st.missing_wal,
     continious_wal |-> st.continious_wal,
     valid_basebackup_count |-> st.valid_basebackup_count,
     oldest_valid_basebackup |-> st.oldest_valid_basebackup,
     useless_remote_wal |-> useless_remote_wal,
     xlog_since_last_bb |-> xlog_since_last_bb]

compute_complex_metrics(s) ==
    LET st1 == ScanBackups(ScanStart, s.bbs, 1, s.xlogs_done)
    IN  IF st1.hang THEN Hangs(s)
        ELSE IF s.xlogs_done = {} THEN Raises(s, "ValueError")
        ELSE
        LET master_position == StrMax(s.xlogs_done)
            st2 == IF st1.current_xlog # None
                   THEN WalkToMaster(st1, master_position, s.xlogs_done, WalkLimit)
                   ELSE st1
        IN  IF st2.hang THEN Hangs(s)
            ELSE
            Let(UselessRemoteWal(s), LAMBDA useless_remote_wal :
            Let(XlogSinceLastBb(s), LAMBDA xlog_since_last_bb :
                Returns(
                    [s EXCEPT
                        !.oldest_valid_basebackup =
                            IF st2.oldest_valid_basebackup # None
                            THEN st2.oldest_valid_basebackup[1] ELSE @,
                        !.xlog_missing = st2.missing_wal,
                        !.continious_wal = st2.continious_wal,
                        !.valid_basebackup_count = st2.valid_basebackup_count,
                        !.useless_remote_wal_segment =
                            IF s.bbs # <<>> THEN useless_remote_wal ELSE @,
                        !.xlog_since_last_bb = xlog_since_last_bb],
                    Bundle(st2, useless_remote_wal, xlog_since_last_bb))))

-----------------------------------------------------------------------------
(* Remote storage: find_remote_xlog (lines 165 to 174) lists the objects   *)
(* under <prefix>/wal_005/<xlog>.lz4 and answers whether one of them is    *)
(* named xlog; fetch_remote_xlogs (lines 221 to 232) adds every name of    *)
(* the listing to xlogs_done.  rem is the set of names stored.             *)

find_remote_xlog(rem, xlog) == xlog \in rem

fetch_remote_xlogs(s, rem) ==
    Returns([s EXCEPT !.xlogs_done = @ \cup rem, !.remote_exception = FALSE], None)

-----------------------------------------------------------------------------
(* update_basebackup (lines 234 to 275), the SIGHUP handler.  answer is    *)
(* what wal-g backup-list gives: its return code, and the backups of its   *)
(* JSON output in the order of the output.                                 *)

Insert(sorted, bb) ==
    LET k == Cardinality({i \in 1..Len(sorted) : sorted[i].time <= bb.time})
    IN  SubSeq(sorted, 1, k) \o <<bb>> \o SubSeq(sorted, k + 1, Len(sorted))

RECURSIVE SortByTime(_)
SortByTime(l) ==
    IF l = <<>> THEN <<>>
    ELSE Insert(SortByTime(SubSeq(l, 1, Len(l) - 1)), l[Len(l)])

Label(bb) == <<bb.wal_file_name, bb.start_lsn>>

SetSeries(basebackup, bbs) ==
    [l \in DOMAIN basebackup \cup {Label(bbs[i]) : i \in 1..Len(bbs)} |->
        IF \E i \in 1..Len(bbs) : Label(bbs[i]) = l
        THEN LET last == CHOOSE i \in 1..Len(bbs) :
                             /\ Label(bbs[i]) = l
                             /\ \A j \in (i + 1)..Len(bbs) : Label(bbs[j]) # l
             IN  bbs[last].time
        ELSE basebackup[l]]

(* The clean-up loop: the done segments in the order of sorted(), removed  *)
(* up to the first one found on remote storage.                            *)
Prune_no_break(xlogs_done, rem) == xlogs_done \cap rem

RECURSIVE Prune(_, _)
Prune(xlogs_done, rem) ==
    IF xlogs_done = {} THEN {}
    ELSE LET xlog == StrMin(xlogs_done)
         IN  IF find_remote_xlog(rem, xlog) THEN xlogs_done
             ELSE Prune(xlogs_done \ {xlog}, rem)

(* Lines 241 to 262. *)
backup_list(s, answer) ==
    Let(SortByTime(answer.bbs), LAMBDA local_bbs :
        IF answer.returncode # 0
        THEN Returns([s EXCEPT !.basebackup_exception = TRUE,
                               !.basebackup_count = Len(s.bbs)], None)
        ELSE IF local_bbs = <<>>
        THEN Raises([s EXCEPT !.bbs = local_bbs], "IndexError")
        ELSE Returns([s EXCEPT
                         !.bbs = local_bbs,
                         !.basebackup = SetSeries(@, local_bbs),
                         !.oldest_basebackup = local_bbs[1].time,
                         !.last_upload_basebackup = <<local_bbs[Len(local_bbs)].time>>,
                         !.basebackup_exception = FALSE,
                         !.basebackup_count = Len(local_bbs)], None))

(* The handler returns None; ret is xlog_removed, the count it logs at     *)
(* line 275.                                                               *)
update_basebackup(s, answer, rem) ==
    Let(backup_list(s, answer), LAMBDA r :
        IF r.exc # NoExc THEN r
        ELSE Let(Prune(r.self.xlogs_done, rem), LAMBDA xlogs_done :
                 Returns([r.self EXCEPT !.xlogs_done = xlogs_done],
                         Cardinality(r.self.xlogs_done) - Cardinality(xlogs_done))))

-----------------------------------------------------------------------------
(* The archiver status (lines 277 to 307).  row is what pg_stat_archiver   *)
(* answers now, or the connection failing (up = FALSE); elapsed says       *)
(* whether more than a second has passed since last_archive_check.         *)
(* The cache is a second old at most, a scrape is taken to last less: the  *)
(* second read of a scrape finds the cache the first one left.             *)

last_archive_status(s, row, elapsed) ==
    IF s.last_archive_check = None \/ elapsed
    THEN IF ~row.up THEN Raises(s, "OperationalError")
         ELSE Returns([s EXCEPT !.archive_status = row,
                                !.last_archive_check = <<"now">>],
                      row)
    ELSE Returns(s, s.archive_status)

last_xlog_upload_callback(s, row, elapsed) ==
    Let(last_archive_status(s, row, elapsed), LAMBDA r :
        IF r.exc # NoExc THEN r
        ELSE IF r.ret.last_archived_time = None THEN Raises(r.self, "AttributeError")
        ELSE Returns(r.self, r.ret.last_archived_time[1]))

(* xlog_ready_callback (lines 309 to 319); the .ready files are not        *)
(* modelled, the directory holds none.                                     *)
xlog_ready_callback(s, dir_exists) ==
    IF dir_exists THEN Returns([s EXCEPT !.xlog_exception = FALSE], 0)
    ELSE Returns([s EXCEPT !.xlog_exception = TRUE], 0)

-----------------------------------------------------------------------------
(* xlog_done_callback (lines 321 to 347).                                  *)

(* Lines 336 to 342: the segments added while stepping from last_xlog to   *)
(* last_archived_wal.                                                      *)
(* The loop of line 336 read as a single test: one segment a call. *)
Extend_one_step(xlogs_done, last_xlog, last_archived_wal, new_error, rem) ==
    IF ~is_before(last_xlog, last_archived_wal) THEN xlogs_done
    ELSE LET next_xlog == get_next_wal(last_xlog)
         IN  IF ~new_error \/ find_remote_xlog(rem, next_xlog)
             THEN xlogs_done \cup {next_xlog}
             ELSE xlogs_done

RECURSIVE Extend(_, _, _, _, _)
Extend(xlogs_done, last_xlog, last_archived_wal, new_error, rem) ==
    IF ~is_before(last_xlog, last_archived_wal) THEN xlogs_done
    ELSE LET next_xlog == get_next_wal(last_xlog)
         IN  IF ~new_error \/ find_remote_xlog(rem, next_xlog)
             THEN Extend(xlogs_done \cup {next_xlog}, next_xlog,
                         last_archived_wal, new_error, rem)
             ELSE Extend(xlogs_done, next_xlog, last_archived_wal, new_error, rem)

ErrorOnRange(archive_status, xlogs_done) ==
    /\ archive_status.last_failed_wal # None
    /\ StrLess(StrMin(xlogs_done), archive_status.last_failed_wal)

(* new_error as a failure after the last known segment. *)
NewError_after_last_xlog(archive_status, last_xlog) ==
    /\ archive_status.last_failed_wal # None
    /\ StrLess(last_xlog, archive_status.last_failed_wal)

NewError(archive_status, last_xlog) ==
    /\ archive_status.last_failed_wal # None
    /\ StrLess(archive_status.last_failed_wal, last_xlog)

(* Lines 325 to 342, of a non-empty xlogs_done. *)
Extended(s, archive_status, rem) ==
    LET last_xlog == StrMax(s.xlogs_done)
        error_on_range == ErrorOnRange(archive_status, s.xlogs_done)
        new_error == NewError(archive_status, last_xlog)
    IN  [s EXCEPT
            !.xlog_exception = error_on_range \/ new_error,
            !.xlogs_done =
                IF archive_status.archived_count > 0
                THEN Extend(@, last_xlog, archive_status.last_archived_wal,
                            new_error, rem)
                ELSE @]

xlog_done_callback(s, row, elapsed, rem) ==
    Let(last_archive_status(s, row, elapsed), LAMBDA r1 :
        IF r1.exc # NoExc THEN r1
        ELSE IF r1.self.xlogs_done = {} THEN Raises(r1.self, "ValueError")
        ELSE Let(compute_complex_metrics(Extended(r1.self, r1.ret, rem)), LAMBDA r3 :
                 IF r3.exc # NoExc THEN r3
                 ELSE Returns(r3.self, Cardinality(r3.self.xlogs_done))))

-----------------------------------------------------------------------------
(* A scrape: the registry collects the gauges in the order __init__        *)
(* declared them (lines 118 to 159), reading the value of a gauge that     *)
(* holds one and calling the function of a gauge that has one.  An         *)
(* exception of a function ends the scrape with an error.                  *)

EarlyGauges(s) ==
    [walg_basebackup_count |-> s.basebackup_count,
     walg_basebackup |-> s.basebackup,
     walg_oldest_valid_basebackup |-> s.oldest_valid_basebackup,
     walg_last_upload_basebackup |-> s.last_upload_basebackup,
     walg_oldest_basebackup |-> s.oldest_basebackup,
     walg_missing_remote_wal_segment |-> s.xlog_missing]

LateGauges(s) ==
    [walg_exception |-> exception_value(s.basebackup_exception, s.xlog_exception,
                                        s.remote_exception),
     walg_xlogs_since_basebackup |-> s.xlog_since_last_bb,
     walg_continious_wal |-> s.continious_wal,
     walg_valid_basebackup_count |-> s.valid_basebackup_count,
     walg_useless_remote_wal_segment |-> s.useless_remote_wal_segment]

Scrape(s, row, elapsed, dir_exists, rem) ==
    Let(last_xlog_upload_callback(s, row, elapsed), LAMBDA r1 :
        IF r1.exc # NoExc THEN r1
        ELSE
        Let(xlog_ready_callback(r1.self, dir_exists), LAMBDA r2 :
        Let(xlog_done_callback(r2.self, row, FALSE, rem), LAMBDA r3 :
            IF r3.exc # NoExc THEN r3
            ELSE Returns(r3.self,
                    EarlyGauges(s)
                    @@ [walg_last_upload_xlog |-> r1.ret,
                        walg_missing_remote_wal_segment_at_end |-> r2.ret,
                        walg_total_remote_wal_count |-> r3.ret]
                    @@ LateGauges(r3.self)))))

-----------------------------------------------------------------------------
VARIABLES
    self,       \* the Exporter object: its fields and the values of its gauges
    remote,     \* the segment names stored under <prefix>/wal_005/ in the bucket
    ops,        \* how many handlers have been called
    arg,        \* the arguments of a call of a pure function
    out,        \* the last operation, and what it returned or raised
    pc,         \* the position of each thread
    loc         \* the local variables of each thread

vars == <<self, remote, ops, arg, out, pc, loc>>

-----------------------------------------------------------------------------
(* The pure functions, applied to arguments drawn from bounded sets.       *)

EdgeWidth == 1

MaxField == [q |-> Limb - 1, r |-> Limb - 1]

Wal(timeline, segment_high, segment_low) ==
    Fmt08X(timeline) \o Fmt08X(segment_high) \o Fmt08X(segment_low)

IsWalId(s) ==
    /\ Len(s) = 24
    /\ \A i \in 1..24 : IsHexChar(s[i])

EdgeLows ==
    {PyInt(n) : n \in 0..EdgeWidth}
        \cup {PyInt(Base + n) : n \in (0 - EdgeWidth - 1)..EdgeWidth}
        \cup {Plus(MaxField, PyInt(0 - n)) : n \in 0..(EdgeWidth - 1)}

EdgeHighs ==
    {PyInt(n) : n \in 0..EdgeWidth}
        \cup {Plus(MaxField, PyInt(0 - n)) : n \in 0..EdgeWidth}

EdgeWals ==
    {Wal(PyInt(t), h, l) : t \in 1..2, h \in EdgeHighs, l \in EdgeLows}

OtherWals ==
    {Wal(PyInt(t), PyInt(h), PyInt(l)) : t \in 1..2, h \in 0..1, l \in {0, Base - 1}}
        \cup {Wal(PyInt(1), MaxField, PyInt(Base - 1))}

NoArg == [a |-> <<>>, b |-> <<>>, flags |-> <<FALSE, FALSE, FALSE>>]

NoOut == [op |-> "none", exc |-> NoExc, ret |-> None]

PureInit ==
    /\ arg \in [a : EdgeWals, b : OtherWals, flags : BOOLEAN \X BOOLEAN \X BOOLEAN]
    /\ out = NoOut
    /\ self = None /\ remote = {} /\ ops = 0 /\ pc = None /\ loc = None

PureFrame == UNCHANGED <<self, remote, ops, arg, pc, loc>>

CallNext ==
    /\ out.op = "none"
    /\ out' = [op |-> "get_next_wal", exc |-> NoExc, ret |-> get_next_wal(arg.a)]
    /\ PureFrame

CallPrevious ==
    /\ out.op = "none"
    /\ out' = [op |-> "get_previous_wal", exc |-> NoExc, ret |-> get_previous_wal(arg.a)]
    /\ PureFrame

CallNextOfPrevious ==
    /\ out.op = "get_previous_wal"
    /\ out' = [op |-> "next_of_previous", exc |-> NoExc, ret |-> get_next_wal(out.ret)]
    /\ PureFrame

CallPreviousOfNext ==
    /\ out.op = "get_next_wal"
    /\ out' = [op |-> "previous_of_next", exc |-> NoExc, ret |-> get_previous_wal(out.ret)]
    /\ PureFrame

CallIsBeforeNext ==
    /\ out.op = "get_next_wal"
    /\ out' = [op |-> "is_before_next", exc |-> NoExc, ret |-> is_before(arg.a, out.ret)]
    /\ PureFrame

CallIsBeforeSelf ==
    /\ out.op = "none"
    /\ out' = [op |-> "is_before_self", exc |-> NoExc, ret |-> is_before(arg.a, arg.a)]
    /\ PureFrame

CallIsBefore ==
    /\ out.op = "none"
    /\ out' = [op |-> "is_before", exc |-> NoExc, ret |-> is_before(arg.a, arg.b)]
    /\ PureFrame

CallException ==
    /\ out.op = "none"
    /\ out' = [op |-> "exception", exc |-> NoExc,
               ret |-> exception_value(arg.flags[1], arg.flags[2], arg.flags[3])]
    /\ PureFrame

PureNext ==
    \/ CallNext
    \/ CallPrevious
    \/ CallNextOfPrevious
    \/ CallPreviousOfNext
    \/ CallIsBeforeNext
    \/ CallIsBeforeSelf
    \/ CallIsBefore
    \/ CallException

SpecPure == PureInit /\ [][PureNext]_vars

-----------------------------------------------------------------------------
(* The continuity scan alone, on backup lists and done sets drawn from a   *)
(* window of segments of timeline 1 and one segment of timeline 2.         *)

MaxBackups == 2

Seg(t, n) == Wal(PyInt(t), PyInt(n \div Base), PyInt(n % Base))

ScanSegs == {Seg(1, n) : n \in 99..(98 + ScanLen)} \cup {Seg(2, 101)}

BackupSegs == {Seg(1, 100), Seg(1, 102), Seg(1, 103), Seg(2, 101)}

(* Lists sorted by time, as update_basebackup leaves self.bbs. *)
BackupLists(segs, n) ==
    UNION {[1..k -> segs] : k \in 0..n}

AsBackups(ws) ==
    [i \in 1..Len(ws) |-> [time |-> i, wal_file_name |-> ws[i], start_lsn |-> i]]

ScanInit ==
    /\ \E ws \in BackupLists(BackupSegs, MaxBackups), done \in SUBSET ScanSegs :
           self = [NewExporter EXCEPT !.bbs = AsBackups(ws), !.xlogs_done = done]
    /\ out = NoOut
    /\ arg = NoArg /\ remote = {} /\ ops = 0 /\ pc = None /\ loc = None

ScanCall ==
    /\ out.op = "none"
    /\ \E r \in {compute_complex_metrics(self)} :
           /\ self' = r.self
           /\ out' = [op |-> "compute_complex_metrics", exc |-> r.exc, ret |-> r.ret]
    /\ UNCHANGED <<remote, ops, arg, pc, loc>>

ScanNext == ScanCall

SpecScan == ScanInit /\ [][ScanNext]_vars

-----------------------------------------------------------------------------
(* The exporter, each handler run from its first line to its last without  *)
(* another one in between (the interleavings are those of SpecThreads).    *)
(* The state after construction is the one __init__ leaves (lines 162 and  *)
(* 163): the listing of remote storage in xlogs_done, then one             *)
(* update_basebackup.  An exception that leaves update_basebackup ends the *)
(* main thread, and the process with it; one that leaves a callback ends   *)
(* the scrape that called it.                                              *)

MaxOps == 1

WinSegs == {Seg(1, n) : n \in (Base - 2)..Base}

Backup(t, w) == [time |-> t, wal_file_name |-> w, start_lsn |-> t]

WalgLists ==
    LET b1 == Backup(1, Seg(1, Base - 2))
        b2 == Backup(2, Seg(1, Base - 1))
    IN  {<<>>, <<b1>>, <<b2>>, <<b1, b2>>, <<b2, b1>>}

WalgAnswers ==
    {[returncode |-> 1, bbs |-> <<>>]} \cup {[returncode |-> 0, bbs |-> l] : l \in WalgLists}

PgDown ==
    [up |-> FALSE, archived_count |-> 0, last_archived_wal |-> None,
     last_archived_time |-> None, last_failed_wal |-> None]

PgRows ==
    {[up |-> TRUE, archived_count |-> 0, last_archived_wal |-> None,
      last_archived_time |-> None, last_failed_wal |-> None]}
    \cup {[up |-> TRUE, archived_count |-> 1, last_archived_wal |-> w,
           last_archived_time |-> <<1>>, last_failed_wal |-> f] :
              w \in WinSegs, f \in {None} \cup WinSegs}

PgAnswers == {PgDown} \cup PgRows

Init ==
    /\ remote \in SUBSET WinSegs
    /\ \E answer \in WalgAnswers :
           \E r \in {update_basebackup(fetch_remote_xlogs(NewExporter, remote).self,
                                        answer, remote)} :
               /\ r.exc = NoExc
               /\ self = r.self
    /\ ops = 0
    /\ out = NoOut
    /\ pc = "serving"
    /\ arg = NoArg /\ loc = None

(* GET /metrics. *)
ScrapeRequest ==
    /\ pc = "serving" /\ ops < MaxOps
    /\ \E elapsed \in IF self.last_archive_check = None THEN {TRUE} ELSE BOOLEAN :
       \E row \in IF elapsed THEN PgAnswers ELSE {PgDown} :
       \E dir_exists \in BOOLEAN :
       \E r \in {Scrape(self, row, elapsed, dir_exists, remote)} :
           /\ self' = r.self
           /\ out' = [op |-> "scrape", exc |-> r.exc, ret |-> r.ret]
    /\ ops' = ops + 1
    /\ UNCHANGED <<remote, pc, arg, loc>>

(* SIGHUP. *)
Sighup ==
    /\ pc = "serving" /\ ops < MaxOps
    /\ \E answer \in WalgAnswers :
       \E r \in {update_basebackup(self, answer, remote)} :
           /\ self' = r.self
           /\ out' = [op |-> "update_basebackup", exc |-> r.exc, ret |-> r.ret]
           /\ pc' = IF r.exc = NoExc THEN pc ELSE "exited"
    /\ ops' = ops + 1
    /\ UNCHANGED <<remote, arg, loc>>

(* The archiver uploads a segment; the retention deletes one.  The bucket  *)
(* is followed as long as a handler may still be called.                   *)
RemoteUpload ==
    /\ pc = "serving" /\ ops < MaxOps
    /\ \E xlog \in WinSegs \ remote : remote' = remote \cup {xlog}
    /\ UNCHANGED <<self, ops, out, pc, arg, loc>>

RemoteDelete ==
    /\ pc = "serving" /\ ops < MaxOps
    /\ \E xlog \in remote : remote' = remote \ {xlog}
    /\ UNCHANGED <<self, ops, out, pc, arg, loc>>

Next == ScrapeRequest \/ Sighup \/ RemoteUpload \/ RemoteDelete

Spec == Init /\ [][Next]_vars

-----------------------------------------------------------------------------
(* The exporter with its threads.  start_http_server (line 433) serves     *)
(* each GET /metrics in a thread of its own; the SIGHUP handler (line 464) *)
(* runs in the main thread, whenever the signal arrives.  Nothing in the   *)
(* source takes a lock, so the threads interleave between the statements   *)
(* of the handlers.  A step below is a statement, or a few statements that *)
(* touch the shared fields once; compute_complex_metrics is one step, so   *)
(* the interleavings here are some of those of the program, not all.       *)

Https == {"http1", "http2"}

Threads == {"main"} \cup Https

MaxRequests == 3

NoLoc ==
    [archive_status |-> PgDown, last_xlog |-> None, new_error |-> FALSE,
     todo |-> <<>>, xlog_removed |-> 0]

RECURSIVE Sorted(_)
Sorted(xlogs) ==
    IF xlogs = {} THEN <<>>
    ELSE <<StrMin(xlogs)>> \o Sorted(xlogs \ {StrMin(xlogs)})

(* The inputs of the threads: the two newest segments of the window, an   *)
(* archiver that has archived the newest and failed on none or on that     *)
(* one, a backup list of one backup or a failing wal-g.                    *)
ThreadSegs == {Seg(1, n) : n \in (Base - 1)..Base}

ThreadRows ==
    {row \in PgRows : /\ row.last_archived_wal = Seg(1, Base)
                      /\ row.last_failed_wal \in {None, Seg(1, Base)}}

ThreadAnswers ==
    {answer \in WalgAnswers :
        /\ Len(answer.bbs) <= 1
        /\ \A i \in 1..Len(answer.bbs) : answer.bbs[i].wal_file_name \in ThreadSegs}

ThreadsInit ==
    /\ remote \in SUBSET ThreadSegs
    /\ \E answer \in ThreadAnswers :
           \E r \in {update_basebackup(fetch_remote_xlogs(NewExporter, remote).self,
                                        answer, remote)} :
               /\ r.exc = NoExc
               /\ self = r.self
    /\ ops = 0
    /\ out = NoOut
    /\ pc = [t \in Threads |-> "idle"]
    /\ loc = [t \in Threads |-> NoLoc]
    /\ arg = NoArg

Running == \A t \in Threads : pc[t] # "exited"

Goto(t, label) == pc' = [pc EXCEPT ![t] = label]

(* A scrape that an exception ends. *)
Fails(t, exc) ==
    /\ Goto(t, "idle")
    /\ out' = [op |-> "scrape", exc |-> exc, ret |-> None]

(* GET /metrics arrives: the server starts a thread for it. *)
Request(t) ==
    /\ Running /\ pc[t] = "idle" /\ ops < MaxRequests
    /\ ops' = ops + 1
    /\ Goto(t, "last_upload")
    /\ UNCHANGED <<self, remote, out, loc, arg>>

(* walg_last_upload{type="xlog"}: last_xlog_upload_callback. *)
LastUpload(t) ==
    /\ Running /\ pc[t] = "last_upload"
    /\ \E elapsed \in IF self.last_archive_check = None THEN {TRUE} ELSE BOOLEAN :
       \E row \in IF elapsed THEN ThreadRows \cup {PgDown} ELSE {PgDown} :
       \E r \in {last_xlog_upload_callback(self, row, elapsed)} :
           /\ self' = r.self
           /\ IF r.exc = NoExc
              THEN Goto(t, "xlog_ready") /\ out' = out
              ELSE Fails(t, r.exc)
    /\ UNCHANGED <<remote, ops, loc, arg>>

(* walg_missing_remote_wal_segment_at_end: xlog_ready_callback. *)
XlogReady(t) ==
    /\ Running /\ pc[t] = "xlog_ready"
    /\ \E dir_exists \in BOOLEAN :
           self' = xlog_ready_callback(self, dir_exists).self
    /\ Goto(t, "archive_status")
    /\ UNCHANGED <<remote, ops, out, loc, arg>>

(* walg_total_remote_wal_count: xlog_done_callback, line 324. *)
ArchiveStatus(t) ==
    /\ Running /\ pc[t] = "archive_status"
    /\ \E r \in {last_archive_status(self, PgDown, FALSE)} :
           /\ self' = r.self
           /\ loc' = [loc EXCEPT ![t].archive_status = r.ret]
    /\ Goto(t, "errors")
    /\ UNCHANGED <<remote, ops, out, arg>>

(* Lines 325 to 333. *)
Errors(t) ==
    /\ Running /\ pc[t] = "errors"
    /\ IF self.xlogs_done = {}
       THEN Fails(t, "ValueError") /\ UNCHANGED <<self, loc>>
       ELSE LET last_xlog == StrMax(self.xlogs_done)
                new_error == NewError(loc[t].archive_status, last_xlog)
            IN  /\ self' = [self EXCEPT !.xlog_exception =
                                ErrorOnRange(loc[t].archive_status, self.xlogs_done)
                                \/ new_error]
                /\ loc' = [loc EXCEPT ![t].last_xlog = last_xlog,
                                      ![t].new_error = new_error]
                /\ Goto(t, "extend")
                /\ out' = out
    /\ UNCHANGED <<remote, ops, arg>>

(* Lines 335 to 342: one test of the loop, and one turn of it. *)
ExtendStep(t) ==
    /\ Running /\ pc[t] = "extend"
    /\ IF /\ loc[t].archive_status.archived_count > 0
          /\ is_before(loc[t].last_xlog, loc[t].archive_status.last_archived_wal)
       THEN LET next_xlog == get_next_wal(loc[t].last_xlog)
            IN  /\ loc' = [loc EXCEPT ![t].last_xlog = next_xlog]
                /\ self' = IF ~loc[t].new_error \/ find_remote_xlog(remote, next_xlog)
                           THEN [self EXCEPT !.xlogs_done = @ \cup {next_xlog}]
                           ELSE self
                /\ pc' = pc
       ELSE Goto(t, "compute") /\ UNCHANGED <<self, loc>>
    /\ UNCHANGED <<remote, ops, out, arg>>

(* Line 346. *)
Compute(t) ==
    /\ Running /\ pc[t] = "compute"
    /\ \E r \in {compute_complex_metrics(self)} :
           /\ self' = r.self
           /\ IF r.exc = NoExc
              THEN Goto(t, "return") /\ out' = out
              ELSE IF r.exc = "hang"
              THEN Goto(t, "hang") /\ out' = out
              ELSE Fails(t, r.exc)
    /\ UNCHANGED <<remote, ops, loc, arg>>

(* Line 347, and the gauges declared after walg_total_remote_wal_count. *)
Return(t) ==
    /\ Running /\ pc[t] = "return"
    /\ out' = [op |-> "scrape", exc |-> NoExc,
               ret |-> [walg_total_remote_wal_count |-> Cardinality(self.xlogs_done)]
                       @@ LateGauges(self)]
    /\ Goto(t, "idle")
    /\ UNCHANGED <<self, remote, ops, loc, arg>>

(* SIGHUP arrives: the interpreter calls update_basebackup in the main     *)
(* thread.                                                                 *)
Signal ==
    /\ Running /\ pc["main"] = "idle" /\ ops < MaxRequests
    /\ ops' = ops + 1
    /\ Goto("main", "backup_list")
    /\ UNCHANGED <<self, remote, out, loc, arg>>

(* Lines 241 to 262, and the sorted() of line 266. *)
BackupList ==
    /\ Running /\ pc["main"] = "backup_list"
    /\ \E answer \in ThreadAnswers :
       \E r \in {backup_list(self, answer)} :
           /\ self' = r.self
           /\ IF r.exc = NoExc
              THEN /\ Goto("main", "prune")
                   /\ loc' = [loc EXCEPT !["main"].todo = Sorted(self.xlogs_done),
                                         !["main"].xlog_removed = 0]
                   /\ out' = out
              ELSE /\ Goto("main", "exited")
                   /\ loc' = loc
                   /\ out' = [op |-> "update_basebackup", exc |-> r.exc, ret |-> None]
    /\ UNCHANGED <<remote, ops, arg>>

(* Lines 266 to 273: one turn of the loop, or its end. *)
PruneStep ==
    /\ Running /\ pc["main"] = "prune"
    /\ IF loc["main"].todo = <<>> \/ find_remote_xlog(remote, Head(loc["main"].todo))
       THEN /\ Goto("main", "idle")
            /\ out' = [op |-> "update_basebackup", exc |-> NoExc,
                       ret |-> loc["main"].xlog_removed]
            /\ loc' = [loc EXCEPT !["main"].todo = <<>>]
            /\ self' = self
       ELSE /\ self' = [self EXCEPT !.xlogs_done = @ \ {Head(loc["main"].todo)}]
            /\ loc' = [loc EXCEPT !["main"].todo = Tail(@),
                                  !["main"].xlog_removed = @ + 1]
            /\ UNCHANGED <<pc, out>>
    /\ UNCHANGED <<remote, ops, arg>>

ThreadsRemoteDelete ==
    /\ Running
    /\ \E xlog \in remote : remote' = remote \ {xlog}
    /\ UNCHANGED <<self, ops, out, pc, arg, loc>>

ThreadsNext ==
    \/ \E t \in Https :
           \/ Request(t) \/ LastUpload(t) \/ XlogReady(t) \/ ArchiveStatus(t)
           \/ Errors(t) \/ ExtendStep(t) \/ Compute(t) \/ Return(t)
    \/ Signal \/ BackupList \/ PruneStep
    \/ ThreadsRemoteDelete

SpecThreads == ThreadsInit /\ [][ThreadsNext]_vars

-----------------------------------------------------------------------------
(* What the claims speak of, said without the scan's own variables.        *)

SameTimeline(a, b) == Slice(a, 0, 8) = Slice(b, 0, 8)

SegmentLow(a) == IntHex(Slice(a, 16, 24))

SegmentHigh(a) == IntHex(Slice(a, 8, 16))

(* The segments of the model from a up to b, b left out. *)
SegsFromTo(a, b) ==
    {s \in ScanSegs : SameTimeline(s, a) /\ ~Less(WalInt(s), WalInt(a))
                        /\ SameTimeline(s, b) /\ Less(WalInt(s), WalInt(b))}

ScanReturned == out.op = "compute_complex_metrics" /\ out.exc = NoExc

(* Backup i and backup i + 1 have a segment between them that is not done. *)
GapAfterBackup(i) ==
    SegsFromTo(self.bbs[i].wal_file_name, self.bbs[i + 1].wal_file_name)
        \ self.xlogs_done # {}

LastGap == CHOOSE i \in 1..(Len(self.bbs) - 1) :
              /\ GapAfterBackup(i)
              /\ \A j \in (i + 1)..(Len(self.bbs) - 1) : ~GapAfterBackup(j)

NoGapAfterLastBackup ==
    SegsFromTo(self.bbs[Len(self.bbs)].wal_file_name, StrMax(self.xlogs_done))
        \subseteq self.xlogs_done

-----------------------------------------------------------------------------
(* C1: when a segment between the start segments of two consecutive        *)
(* backups is not done (and every segment after the last backup is), the   *)
(* scan ends with valid_basebackup_count = the number of backups after     *)
(* the last gap; for backups at 100 and 103 and done = {100, 103} it ends  *)
(* with 2 missing, a continuous run of 0 and a valid count of 1.           *)
C1_CountsBackupsAfterLastGap ==
    (/\ ScanReturned
     /\ \E i \in 1..(Len(self.bbs) - 1) : GapAfterBackup(i)
     /\ NoGapAfterLastBackup)
    => /\ self.valid_basebackup_count = Len(self.bbs) - LastGap
       /\ (/\ self.bbs = AsBackups(<<Seg(1, 100), Seg(1, 103)>>)
           /\ self.xlogs_done = {Seg(1, 100), Seg(1, 103)})
          => /\ self.xlog_missing = 2
             /\ self.continious_wal = 0
             /\ self.valid_basebackup_count = 1

(* C2: the status value is the sum of the weights (2, 3, 5) of the flags   *)
(* that are set, is 0 only when none is set, and no other combination of   *)
(* the flags gives the same value.                                         *)
C2_StatusIsSumOfWeights ==
    out.op = "exception" =>
        /\ out.ret = (IF arg.flags[1] THEN 2 ELSE 0) + (IF arg.flags[2] THEN 3 ELSE 0)
                        + (IF arg.flags[3] THEN 5 ELSE 0)
        /\ (out.ret = 0 => arg.flags = <<FALSE, FALSE, FALSE>>)
        /\ \A f \in BOOLEAN \X BOOLEAN \X BOOLEAN :
               f # arg.flags => exception_value(f[1], f[2], f[3]) # out.ret

(* C3: a scan of an empty xlogs_done never fails, and with an empty bbs as  *)
(* well it leaves every counter of the bundle at zero or unset.            *)
C3_EmptyDoneNeverFails ==
    (out.op = "compute_complex_metrics" /\ self.xlogs_done = {}) =>
        /\ out.exc = NoExc
        /\ self.bbs = <<>> =>
               /\ self.xlog_missing = 0
               /\ self.continious_wal = 0
               /\ self.valid_basebackup_count = 0
               /\ self.oldest_valid_basebackup = 0
               /\ self.useless_remote_wal_segment = 0
               /\ self.xlog_since_last_bb = 0

(* A step of Spec that is a scrape returning its samples, a step that is   *)
(* an update_basebackup returning.                                         *)
ScrapeStep == ops' = ops + 1 /\ out'.op = "scrape" /\ out'.exc = NoExc

UpdateStep == ops' = ops + 1 /\ out'.op = "update_basebackup" /\ out'.exc = NoExc

(* C4: when the archiver's last_failed_wal is not older than the maximum   *)
(* of xlogs_done, a scrape adds to xlogs_done only segments that are on    *)
(* remote storage.                                                         *)
C4_NewFailureAddsOnlyVerified ==
    [][(/\ ScrapeStep
        /\ self.xlogs_done # {}
        /\ self'.archive_status.last_failed_wal # None
        /\ ~StrLess(self'.archive_status.last_failed_wal, StrMax(self.xlogs_done)))
       => (self'.xlogs_done \ self.xlogs_done) \subseteq remote]_vars

RoundTrip(op) ==
    out.op = op =>
        /\ out.ret = arg.a
        /\ IsWalId(out.ret)
        /\ SameTimeline(out.ret, arg.a)

LowInBase(a) == Less(SegmentLow(a), PyInt(Base))

IsLastSegment(a) == SegmentHigh(a) = MaxField /\ SegmentLow(a) = PyInt(Base - 1)

(* C5, as claimed: for every 24-hex identifier a,                          *)
(* get_next_wal(get_previous_wal(a)) = a = get_previous_wal(get_next_wal(a)), *)
(* a 24-hex identifier of a's timeline.                                    *)
C5_RoundTripEveryId ==
    /\ RoundTrip("next_of_previous")
    /\ RoundTrip("previous_of_next")

(* C5, amended: for every 24-hex identifier a whose segment_low is below   *)
(* 0x100, get_next_wal(get_previous_wal(a)) = a, and, unless a is          *)
(* FFFFFFFF000000FF, get_previous_wal(get_next_wal(a)) = a; the result is  *)
(* a 24-hex identifier of a's timeline.                                    *)
C5_RoundTripInBase ==
    /\ LowInBase(arg.a) => RoundTrip("next_of_previous")
    /\ (LowInBase(arg.a) /\ ~IsLastSegment(arg.a)) => RoundTrip("previous_of_next")

C5_Witness ==
    /\ out.op = "next_of_previous"
    /\ arg.a = Wal(PyInt(1), PyInt(0), PyInt(0))
    /\ out.ret = arg.a

NextFits(a) ==
    ~Less(MaxField, Plus(SegmentHigh(a), FloorDiv(Plus(SegmentLow(a), PyInt(1)), Base)))

(* C6, as claimed: for every 24-hex identifier a, is_before(a,             *)
(* get_next_wal(a)) is true and is_before(a, a) is false, and is_before    *)
(* is false for two identifiers of different timelines.                    *)
C6_BeforeNextEveryId ==
    /\ out.op = "is_before_next" => out.ret = TRUE
    /\ out.op = "is_before_self" => out.ret = FALSE
    /\ (out.op = "is_before" /\ ~SameTimeline(arg.a, arg.b)) => out.ret = FALSE

(* C6, amended: for every 24-hex identifier a whose successor fits 8 hex   *)
(* digits (segment_high + (segment_low + 1) div 0x100 <= 0xFFFFFFFF),      *)
(* is_before(a, get_next_wal(a)) is true; is_before(a, a) is false; and    *)
(* is_before is false for two identifiers of different timelines.          *)
C6_BeforeNextThatFits ==
    /\ (out.op = "is_before_next" /\ NextFits(arg.a)) => out.ret = TRUE
    /\ out.op = "is_before_self" => out.ret = FALSE
    /\ (out.op = "is_before" /\ ~SameTimeline(arg.a, arg.b)) => out.ret = FALSE

C6_Witness ==
    /\ out.op = "is_before_next"
    /\ arg.a = Wal(PyInt(1), PyInt(0), PyInt(Base - 1))
    /\ out.ret = TRUE

(* C7: for backups of one timeline, the last of them not after             *)
(* max(xlogs_done), and every segment from the first backup's up to        *)
(* max(xlogs_done) done, the scan ends with no segment missing, every      *)
(* backup valid, the first backup's time as the oldest valid one, and a    *)
(* continuous run of as many segments as lie from the first backup's to    *)
(* max(xlogs_done).                                                        *)
C7_ContinuousChain ==
    (/\ ScanReturned
     /\ self.bbs # <<>>
     /\ \A i \in 1..Len(self.bbs) :
            SameTimeline(self.bbs[i].wal_file_name, StrMax(self.xlogs_done))
     /\ ~Less(WalInt(StrMax(self.xlogs_done)),
              WalInt(self.bbs[Len(self.bbs)].wal_file_name))
     /\ SegsFromTo(self.bbs[1].wal_file_name, StrMax(self.xlogs_done))
            \subseteq self.xlogs_done)
    => /\ self.xlog_missing = 0
       /\ self.valid_basebackup_count = Len(self.bbs)
       /\ self.oldest_valid_basebackup = self.bbs[1].time
       /\ self.continious_wal =
              Cardinality(SegsFromTo(self.bbs[1].wal_file_name,
                                     StrMax(self.xlogs_done)))

C7_Witness ==
    /\ ScanReturned
    /\ self.bbs = AsBackups(<<Seg(1, 100), Seg(1, 103)>>)
    /\ self.xlogs_done = {Seg(1, 100), Seg(1, 101), Seg(1, 102), Seg(1, 103)}
    /\ self.continious_wal = 3
    /\ self.valid_basebackup_count = 2

(* C8, as the claim states it: after update_basebackup no segment of       *)
(* xlogs_done is absent from remote storage, every done segment that was   *)
(* absent has gone.                                                        *)
C8_PruneLeavesOnlyRemote ==
    [][UpdateStep => self'.xlogs_done = self.xlogs_done \cap remote]_vars

(* C8, amended: after update_basebackup xlogs_done holds the done segments *)
(* that sort at or after the first done segment found on remote storage;   *)
(* the ones before it have gone, the ones after it stay, on remote storage *)
(* or not; it is empty when no done segment is on remote storage.          *)
C8_PruneRemovesUpToFirstFound ==
    [][UpdateStep =>
          self'.xlogs_done =
              {xlog \in self.xlogs_done :
                  \E found \in self.xlogs_done \cap remote : ~StrLess(xlog, found)}]_vars

(* A prune has removed a segment, and stopped at one that it found on      *)
(* remote storage with another one after it.                               *)
C8_Witness ==
    /\ out.op = "update_basebackup" /\ out.exc = NoExc
    /\ out.ret >= 1
    /\ Cardinality(self.xlogs_done) >= 2

(* The six counters of the bundle, as the gauges of s publish them and as  *)
(* the samples of a scrape show them.                                      *)
Published(s) ==
    [missingSegments |-> s.xlog_missing,
     continuousRun |-> s.continious_wal,
     validBackupChainCount |-> s.valid_basebackup_count,
     oldestValidBackupTime |-> s.oldest_valid_basebackup,
     uselessSegments |-> s.useless_remote_wal_segment,
     xlogSinceLastBaseBackup |-> s.xlog_since_last_bb]

Observed(samples) ==
    [missingSegments |-> samples.walg_missing_remote_wal_segment,
     continuousRun |-> samples.walg_continious_wal,
     validBackupChainCount |-> samples.walg_valid_basebackup_count,
     oldestValidBackupTime |-> samples.walg_oldest_valid_basebackup,
     uselessSegments |-> samples.walg_useless_remote_wal_segment,
     xlogSinceLastBaseBackup |-> samples.walg_xlogs_since_basebackup]

(* C9: the six counters a scrape shows are those one scan published: the   *)
(* scan of this scrape, or the values published before it.                 *)
C9_ScrapeSeesOneScan ==
    [][ScrapeStep =>
          \/ Observed(out'.ret) = Published(self')
          \/ Observed(out'.ret) = Published(self)]_vars

(* C10: at most one thread is inside update_basebackup or inside           *)
(* xlog_done_callback.                                                     *)
InRefresh(t) ==
    IF t = "main" THEN pc[t] \in {"backup_list", "prune"}
    ELSE pc[t] \in {"archive_status", "errors", "extend", "compute", "return"}

C10_OneRefreshAtATime == Cardinality({t \in Threads : InRefresh(t)}) <= 1

(* A step of Spec that is the scrape made with this answer of the         *)
(* archiver view, this age of the cached row and this state of the         *)
(* archive_status directory; the scrape queries the view when the cached   *)
(* row is missing or too old.                                              *)
Scraped(row, elapsed, dir_exists) ==
    /\ ops' = ops + 1
    /\ \E r \in {Scrape(self, row, elapsed, dir_exists, remote)} :
           /\ self' = r.self
           /\ out' = [op |-> "scrape", exc |-> r.exc, ret |-> r.ret]

Queried(elapsed) == elapsed \/ self.last_archive_check = None

(* C11: a scrape during which the query of pg_stat_archiver fails still    *)
(* returns its samples: the failure stays inside last_xlog_upload_callback *)
(* and xlog_done_callback, xlog_exception is set and archive_status keeps  *)
(* the row it had.                                                         *)
C11_QueryFailureStaysInside ==
    [][\A elapsed \in BOOLEAN, dir_exists \in BOOLEAN :
          (Queried(elapsed) /\ Scraped(PgDown, elapsed, dir_exists))
          => /\ out'.exc = NoExc
             /\ self'.xlog_exception
             /\ self'.archive_status = self.archive_status]_vars

(* C12: a scrape during which the archive_status directory cannot be      *)
(* listed ends with xlog_exception set, and the walg_exception sample of   *)
(* that scrape is the status value computed with the flag set: the         *)
(* callbacks that run after xlog_ready_callback have not cleared it.       *)
C12_ScanFailureShowsInStatus ==
    [][\A row \in PgAnswers, elapsed \in BOOLEAN :
          (Scraped(row, elapsed, FALSE) /\ out'.exc = NoExc)
          => /\ self'.xlog_exception
             /\ out'.ret.walg_exception =
                    exception_value(self'.basebackup_exception, TRUE,
                                    self'.remote_exception)]_vars

(* C13: the extend step and the prune step are idempotent.  Run again on   *)
(* the state a scrape has left, with the archiver row of that scrape and   *)
(* remote storage as it is, lines 325 to 342 leave xlogs_done as it is;    *)
(* run again on the state an update_basebackup has left, with remote       *)
(* storage as it is, the loop of lines 266 to 273 leaves xlogs_done as it  *)
(* is.                                                                     *)
C13_SecondRunChangesNothing ==
    [][/\ ScrapeStep =>
              Extended(self', self'.archive_status, remote').xlogs_done = self'.xlogs_done
       /\ UpdateStep =>
              Prune(self'.xlogs_done, remote') = self'.xlogs_done]_vars

(* A prune has removed a segment and has left one that remote storage does *)
(* not hold, behind the one it stopped at.                                 *)
C13_Witness ==
    /\ out.op = "update_basebackup" /\ out.exc = NoExc
    /\ out.ret >= 1
    /\ ~(self.xlogs_done \subseteq remote)

(* C14: after an update_basebackup that has fetched the list of backups,  *)
(* walg_basebackup has a series for each backup of that list and for no    *)
(* other: the series of a backup that the list no longer holds has gone.   *)
C14_SeriesAreLatestFetch ==
    (/\ out.op = "update_basebackup" /\ out.exc = NoExc
     /\ ~self.basebackup_exception)
    => DOMAIN self.basebackup = {Label(self.bbs[i]) : i \in 1..Len(self.bbs)}

(* The segments at or after the last backup's that are not done although  *)
(* a done segment is after them, and the done segments that the walk from  *)
(* the last backup to max(xlogs_done) passes after the last of those.      *)
LastBackupSeg == self.bbs[Len(self.bbs)].wal_file_name

GapsAfterLastBackup ==
    {s \in ScanSegs \ self.xlogs_done :
        /\ SameTimeline(s, LastBackupSeg)
        /\ ~Less(WalInt(s), WalInt(LastBackupSeg))
        /\ \E d \in self.xlogs_done : is_before(s, d)}

DoneAfterGaps ==
    {d \in SegsFromTo(LastBackupSeg, StrMax(self.xlogs_done)) \cap self.xlogs_done :
        \A s \in GapsAfterLastBackup : is_before(s, d)}

(* C15, as claimed: with no gap between the backups, the scan counts as    *)
(* missing exactly the segments at or after the last backup's that are not *)
(* done and have a done segment after them; if there is one, the valid     *)
(* count is 0, no oldest valid time is published and the continuous run    *)
(* is what was walked after the last of them; if there is none, every      *)
(* backup is valid and the first backup's time is the oldest valid one.    *)
C15_MissingIffDoneAfter ==
    (/\ ScanReturned
     /\ self.bbs # <<>>
     /\ \A i \in 1..(Len(self.bbs) - 1) : ~GapAfterBackup(i))
    => /\ self.xlog_missing = Cardinality(GapsAfterLastBackup)
       /\ GapsAfterLastBackup # {} =>
              /\ self.valid_basebackup_count = 0
              /\ out.ret.oldest_valid_basebackup = None
              /\ self.continious_wal = Cardinality(DoneAfterGaps)
       /\ GapsAfterLastBackup = {} =>
              /\ self.valid_basebackup_count = Len(self.bbs)
              /\ out.ret.oldest_valid_basebackup = <<self.bbs[1].time>>

(* C15, amended: the same, when max(xlogs_done) is on the timeline of the  *)
(* last backup; when it is on another timeline the scan walks no segment   *)
(* after the last backup, counts none as missing and resets nothing.       *)
C15_MissingIffDoneAfterOnTimeline ==
    (/\ ScanReturned
     /\ self.bbs # <<>>
     /\ \A i \in 1..(Len(self.bbs) - 1) : ~GapAfterBackup(i))
    => IF SameTimeline(LastBackupSeg, StrMax(self.xlogs_done))
       THEN /\ self.xlog_missing = Cardinality(GapsAfterLastBackup)
            /\ GapsAfterLastBackup # {} =>
                   /\ self.valid_basebackup_count = 0
                   /\ out.ret.oldest_valid_basebackup = None
                   /\ self.continious_wal = Cardinality(DoneAfterGaps)
            /\ GapsAfterLastBackup = {} =>
                   /\ self.valid_basebackup_count = Len(self.bbs)
                   /\ out.ret.oldest_valid_basebackup = <<self.bbs[1].time>>
       ELSE /\ self.xlog_missing = 0
            /\ self.valid_basebackup_count = Len(self.bbs)
            /\ out.ret.oldest_valid_basebackup = <<self.bbs[1].time>>

C15_Witness ==
    /\ ScanReturned
    /\ self.bbs = AsBackups(<<Seg(1, 100)>>)
    /\ self.xlogs_done = {Seg(1, 100), Seg(1, 102), Seg(1, 103)}
    /\ self.xlog_missing = 1
    /\ self.continious_wal = 1
    /\ self.valid_basebackup_count = 0

(* a sorts strictly before b: both of one timeline, a's position the lower. *)
SortsBefore(a, b) == SameTimeline(a, b) /\ Less(WalInt(a), WalInt(b))

(* C16: for a non-empty bbs and a non-empty xlogs_done, the scan publishes *)
(* as useless_remote_wal_segment the number of done segments that sort     *)
(* strictly before the first backup's start segment; with the first backup *)
(* at 100 and 99 done, it publishes 1.                                     *)
C16_UselessAreBeforeFirstBackup ==
    (ScanReturned /\ self.bbs # <<>> /\ self.xlogs_done # {})
    => /\ self.useless_remote_wal_segment =
              Cardinality({d \in self.xlogs_done :
                              SortsBefore(d, self.bbs[1].wal_file_name)})
       /\ (self.bbs[1].wal_file_name = Seg(1, 100) /\ Seg(1, 99) \in self.xlogs_done)
          => self.useless_remote_wal_segment = 1

C16_Witness ==
    /\ ScanReturned
    /\ self.bbs = AsBackups(<<Seg(1, 100), Seg(1, 102)>>)
    /\ self.xlogs_done = {Seg(1, 99), Seg(1, 100), Seg(1, 101), Seg(1, 102)}
    /\ self.useless_remote_wal_segment = 1

(* C17: the scan publishes as xlog_since_last_bb the number of done        *)
(* segments that sort strictly after the last backup's start segment, and  *)
(* 0 when bbs is empty; with the last backup at 103 and 104 and 105 done,  *)
(* it publishes 2.                                                         *)
C17_SinceLastBackupAreAfterIt ==
    ScanReturned
    => /\ self.bbs = <<>> => self.xlog_since_last_bb = 0
       /\ self.bbs # <<>> =>
              /\ self.xlog_since_last_bb =
                     Cardinality({d \in self.xlogs_done : SortsBefore(LastBackupSeg, d)})
              /\ (/\ LastBackupSeg = Seg(1, 103)
                  /\ {d \in self.xlogs_done : SortsBefore(LastBackupSeg, d)}
                         = {Seg(1, 104), Seg(1, 105)})
                 => self.xlog_since_last_bb = 2

C17_Witness ==
    /\ ScanReturned
    /\ self.bbs # <<>>
    /\ LastBackupSeg = Seg(1, 103)
    /\ self.xlogs_done = {Seg(1, 103), Seg(1, 104), Seg(1, 105)}
    /\ self.xlog_since_last_bb = 2

(* C18: for every bbs sorted by time and every non-empty xlogs_done the    *)
(* scan returns: it raises nothing, and no walk goes on without end, also  *)
(* when a later backup starts before the current position or on another    *)
(* timeline.                                                               *)
C18_ScanReturns ==
    (out.op = "compute_complex_metrics" /\ self.xlogs_done # {}) => out.exc = NoExc

(* The six counters as a scan returned them, an oldest valid time of None  *)
(* being a gauge that shows no time (0, as a gauge never set).             *)
Computed(bundle) ==
    [missingSegments |-> bundle.missing_wal,
     continuousRun |-> bundle.continious_wal,
     validBackupChainCount |-> bundle.valid_basebackup_count,
     oldestValidBackupTime |-> IF bundle.oldest_valid_basebackup = None THEN 0
                               ELSE bundle.oldest_valid_basebackup[1],
     uselessSegments |-> bundle.useless_remote_wal,
     xlogSinceLastBaseBackup |-> bundle.xlog_since_last_bb]

(* C19: after every scan the six published counters are the ones that scan *)
(* computed; none keeps the value an earlier scan published.               *)
C19_PublishedIsComputed ==
    [][\A t \in Https :
          (pc[t] = "compute" /\ pc'[t] = "return")
          => \A r \in {compute_complex_metrics(self)} :
                 Published(self') = Computed(r.ret)]_vars

====
